---- MODULE Spec2Model ----
(***************************************************************************)
(* State-machine model of the SunCalc class (src/unnamed/part_000) and of  *)
(* the way the example script drives it (src/examples/                     *)
(* time_of_day_change.js).                                                 *)
(*                                                                         *)
(* Numbers.  JavaScript numbers are modelled in fixed point:               *)
(*   - angles kept in the object (_latitude_, _longitude_): 1e-9 rad;      *)
(*   - degrees handed in by the caller: 1e-7 degree;                       *)
(*   - _altitude_: millimetres;                                            *)
(*   - every intermediate of the two calculators: 1e-4 (FP).               *)
(* A Date is [day, ms]: whole days since 1970-01-01 (UTC) and the          *)
(* millisecond of that day; the Invalid Date (time value NaN) is           *)
(* InvalidDate.  An ISO string is the tuple of its seven numeric fields.   *)
(***************************************************************************)
EXTENDS Integers, Sequences, FiniteSets, TLC

\* ------------------------------------------------------------------------
\* Fixed-point arithmetic
\* ------------------------------------------------------------------------
FP == 100 * 100          \* 1e-4 resolution of calculator intermediates
NaN == -(2^30)           \* stands for the number NaN; no FP value gets this low
IsNaN(v) == v = NaN

Abs(v) == IF v < 0 THEN -v ELSE v
Sgn(v) == IF v < 0 THEN -1 ELSE 1
Min(a, b) == IF a < b THEN a ELSE b

\* x * k / (1000 * d) and x * k / (1000000 * d), truncated toward zero,
\* formed from three-digit pieces of x so that no product leaves the machine
\* integer (k below 2000000; for Scale also x * k below 2e12)
Scale(x, k, d) ==
  LET a == Abs(x)
  IN  Sgn(x) * ((((a \div 1000) * k + (((a % 1000) * k) \div 1000))) \div d)
ScaleM(x, k, d) ==
  LET a == Abs(x)
      m2 == a \div 1000000
      m1 == (a \div 1000) % 1000
      m0 == a % 1000
  IN  Sgn(x) * ((m2 * k + ((m1 * k + ((m0 * k) \div 1000)) \div 1000)) \div d)

\* product and quotient of two FP values, truncated toward zero; NaN when
\* either is NaN
FMul(a, b) ==
  IF IsNaN(a) \/ IsNaN(b) THEN NaN
  ELSE Sgn(a) * Sgn(b) * ((Abs(a) * Abs(b)) \div FP)
FDiv(a, b) ==
  IF IsNaN(a) \/ IsNaN(b) THEN NaN
  ELSE Sgn(a) * Sgn(b) * ((Abs(a) * FP) \div Abs(b))
\* Math.floor of an FP value, as an integer
Floor(v) == v \div FP

TwoPi == 62832           \* Math.PI + Math.PI in FP
Pi == 31416
HalfPi == Pi \div 2

\* Math.sin / Math.cos on [-pi/2, pi/2] by their Taylor polynomials
SinPoly(x) ==
  LET x2 == (x * x) \div FP
      t3 == (x * x2) \div (FP * 6)
      t5 == (t3 * x2) \div (FP * 20)
      t7 == (t5 * x2) \div (FP * 42)
      t9 == (t7 * x2) \div (FP * 72)
  IN  x - t3 + t5 - t7 + t9
CosPoly(x) ==
  LET x2 == (x * x) \div FP
      t2 == x2 \div 2
      t4 == (t2 * x2) \div (FP * 12)
      t6 == (t4 * x2) \div (FP * 30)
      t8 == (t6 * x2) \div (FP * 56)
      t10 == (t8 * x2) \div (FP * 90)
  IN  FP - t2 + t4 - t6 + t8 - t10

\* argument reduced to (-pi, pi]
Reduce(x) ==
  LET m == x % TwoPi
  IN  IF m > Pi THEN m - TwoPi ELSE m

\* Math.sin, Math.cos of an FP angle
Sin(x) ==
  LET r == Reduce(x)
      a == Abs(r)
  IN  Sgn(r) * (IF a > HalfPi THEN SinPoly(Pi - a) ELSE SinPoly(a))
Cos(x) ==
  LET r == Abs(Reduce(x))
  IN  IF r > HalfPi THEN -CosPoly(Pi - r) ELSE CosPoly(r)

\* Math.acos: NaN outside [-1, 1], else the angle in [0, pi], found by
\* bisection as the first angle whose cosine is not above v
RECURSIVE AcosSearch(_, _, _)
AcosSearch(lo, hi, v) ==
  IF hi - lo <= 1 THEN hi
  ELSE LET mid == (lo + hi) \div 2
       IN  IF Cos(mid) > v THEN AcosSearch(mid, hi, v)
           ELSE AcosSearch(lo, mid, v)
Acos(v) == IF v > FP \/ v < -FP THEN NaN ELSE AcosSearch(-1, Pi, v)

\* ------------------------------------------------------------------------
\* The host's Date type
\* ------------------------------------------------------------------------
MsPerMinute == 60 * 1000
MsPerDay == 24 * 60 * MsPerMinute
InvalidDate == [day |-> 0, ms |-> -1]
IsValidDate(d) == d.ms >= 0

\* proleptic Gregorian calendar: day number -> <<year, month, day>>, by
\* era (400 years), day of era, year of era, day of year, month from March
CivilYMD(y, m, d) == <<IF m <= 2 THEN y + 1 ELSE y, m, d>>
CivilFromMp(y, doy, mp) ==
  CivilYMD(y, IF mp < 10 THEN mp + 3 ELSE mp - 9,
           doy - ((153 * mp + 2) \div 5) + 1)
CivilFromDoy(y, doy) == CivilFromMp(y, doy, (5 * doy + 2) \div 153)
CivilFromYoe(era, doe, yoe) ==
  CivilFromDoy(yoe + era * 400,
               doe - (365 * yoe + (yoe \div 4) - (yoe \div 100)))
CivilFromDoe(era, doe) ==
  CivilFromYoe(era, doe,
               (doe - (doe \div 1460) + (doe \div 36524) - (doe \div 146096))
                 \div 365)
CivilFromEra(z, era) == CivilFromDoe(era, z - era * 146097)
CivilFromDays(n) == CivilFromEra(n + 719468, (n + 719468) \div 146097)

\* <<year, month 1..12, day>> -> day number; a day past the end of the
\* month runs on into the next one, as the Date constructor does
DaysFromCivil(y, m, d) ==
  LET yy == IF m <= 2 THEN y - 1 ELSE y
      era == yy \div 400
      yoe == yy - era * 400
      doy == ((153 * (IF m > 2 THEN m - 3 ELSE m + 9) + 2) \div 5)
      doe == yoe * 365 + (yoe \div 4) - (yoe \div 100) + doy
  IN  era * 146097 + doe - 719468 + (d - 1)

\* a Date moved by n milliseconds
AddMs(d, n) ==
  IF ~IsValidDate(d) THEN InvalidDate
  ELSE LET t == d.ms + n
       IN  [day |-> d.day + (t \div MsPerDay), ms |-> t % MsPerDay]

\* Date.prototype.toISOString: <<YYYY, MM, DD, HH, mm, ss, sss>>
toISOString(d) ==
  CivilFromDays(d.day) \o
  <<d.ms \div 3600000, (d.ms \div MsPerMinute) % 60, (d.ms \div 1000) % 60,
    d.ms % 1000>>

\* String.prototype.substring(0, end) of an ISO string: the fields that lie
\* wholly within the first end characters of "YYYY-MM-DDTHH:mm:ss.sssZ"
FieldEnd == <<4, 7, 10, 13, 16, 19, 23>>
substring(iso, end) ==
  SubSeq(iso, 1, Cardinality({i \in 1..Len(iso) : FieldEnd[i] <= end}))

\* new Date(isoString)
DateFromISO(iso) ==
  [day |-> DaysFromCivil(iso[1], iso[2], iso[3]),
   ms |-> iso[4] * 3600000 + iso[5] * MsPerMinute + iso[6] * 1000 + iso[7]]

\* The local-time view of a Date; tzo is what getTimezoneOffset() returns
\* on this host (minutes, UTC minus local time, no daylight saving).
LocalView(d, tzo) == AddMs(d, -tzo * MsPerMinute)
getFullYear(d, tzo) == CivilFromDays(LocalView(d, tzo).day)[1]
getMonth(d, tzo) == CivilFromDays(LocalView(d, tzo).day)[2] - 1
getDate(d, tzo) == CivilFromDays(LocalView(d, tzo).day)[3]
getHours(d, tzo) == LocalView(d, tzo).ms \div 3600000
getMinutes(d, tzo) == (LocalView(d, tzo).ms \div MsPerMinute) % 60
getSeconds(d, tzo) == (LocalView(d, tzo).ms \div 1000) % 60

\* new Date(year, monthIndex, day, 0, 0, 0): local midnight
LocalMidnight(y, mi, d, tzo) ==
  AddMs([day |-> DaysFromCivil(y, mi + 1, d), ms |-> 0], tzo * MsPerMinute)

\* whole days from Date a to Date b, both local midnights
DaysBetween(a, b) == b.day - a.day

\* Date.prototype.setMinutes(n) / setSeconds(n): n is NaN or an integer
setMinutes(d, n, tzo) ==
  IF IsNaN(n) THEN InvalidDate
  ELSE AddMs(d, (n - getMinutes(d, tzo)) * MsPerMinute)
setSeconds(d, n, tzo) ==
  IF IsNaN(n) THEN InvalidDate
  ELSE AddMs(d, (n - getSeconds(d, tzo)) * 1000)

\* ------------------------------------------------------------------------
\* The class SunCalc.  An instance is a record `this` with the fields
\* latitude, longitude (1e-9 rad), altitude (mm), date, timezone (minutes),
\* latitude_trig ([x, y, z] in FP), last_date (ISO string), the ten event
\* Dates and sun_elevation, sun_azimuth (degrees in FP, or NaN).
\* ------------------------------------------------------------------------
undefined == NaN - 1     \* an argument that was not passed
Infinity == 2^30         \* the quotient of a division by zero

\* v * 0.01745329 for a caller's coordinate v = [m, e], the number m * 10^-e;
\* the product is kept in 1e-9
Times0_01745329(v) ==
  [m |-> IF IsNaN(v.m) THEN NaN
         ELSE ScaleM(v.m, 1745329, IF v.e = 7 THEN 1 ELSE 100),
   e |-> 9]
\* v * 57.2957795 for an FP value
Times57_2957795(v) ==
  IF IsNaN(v) THEN NaN ELSE v * 57 + Scale(v, 295780, 1000)
\* v * 0.01745329 for an FP value
FPTimes0_01745329(v) == Scale(v, 174533, 10000)
\* a 1e-9 angle in FP
ToFP(a) == Sgn(a) * (Abs(a) \div 100000)

hasOwnPropertyZ(coordinates) == "z" \in DOMAIN coordinates
\* coordinates.z where a number is wanted: undefined converts to NaN
NumberZ(coordinates) ==
  IF hasOwnPropertyZ(coordinates) THEN coordinates.z ELSE NaN

\* Vec3(Math.sin(lat), Math.cos(lat), sin / cos)
LatitudeTrig(lat) ==
  LET sn == Sin(ToFP(lat))
      cs == Cos(ToFP(lat))
  IN  IF IsNaN(lat) THEN [x |-> NaN, y |-> NaN, z |-> NaN]
      ELSE [x |-> sn, y |-> cs, z |-> IF cs = 0 THEN Infinity ELSE FDiv(sn, cs)]

\* coefficient c (in 1e-6) times an FP value, in 1e-6
Coef(c, v) == Sgn(v) * Scale(c, Abs(v), 10)

\* the equation of time (FP minutes) for the fractional year g
EqTime(g) ==
  LET micro == 75 + Coef(1868, Cos(g)) - Coef(32077, Sin(g))
               - Coef(14615, Cos(g + g)) - Coef(40849, Sin(g + g))
  IN  Sgn(micro) * ((Abs(micro) * 22918) \div 10000)
\* the solar declination (FP rad) for the fractional year g
Declination(g) ==
  LET micro == 6918 - Coef(399912, Cos(g)) + Coef(70257, Sin(g))
               - Coef(6758, Cos(g + g)) + Coef(907, Sin(g + g))
               - Coef(2697, Cos(g * 3)) + Coef(1480, Sin(g * 3))
  IN  Sgn(micro) * (Abs(micro) \div 100)

\* this._longitude_ * 57.2957795, in FP degrees
LongitudeDeg(lon) ==
  IF IsNaN(lon) THEN NaN
  ELSE Scale(Sgn(lon) * (Abs(lon) \div 1000), 572958, 1000)

EventNames ==
  {"sunrise", "sunset", "solar_noon", "solar_midnight", "civil_dawn",
   "civil_dusk", "nautical_dawn", "nautical_dusk", "astronomical_dawn",
   "astronomical_dusk"}

\* new Date(time_template) with setMinutes(Math.floor(m)) and
\* setSeconds((m - Math.floor(m)) * 60), m in FP minutes or NaN
EventDate(time_template, m, tzo) ==
  LET fl == IF IsNaN(m) THEN NaN ELSE Floor(m)
      sec == IF IsNaN(m) THEN NaN ELSE ((m - fl * FP) * 60) \div FP
  IN  setSeconds(setMinutes(time_template, fl, tzo), sec, tzo)

\* days in the local year
YearLength(year, tzo) ==
  DaysBetween(LocalMidnight(year, 0, 1, tzo),
              LocalMidnight(year + 1, 0, 1, tzo))

\* fract_year_rad of _updateStatic_: thisDate is the local midnight that
\* ends the day, so the ratio is one of whole days
StaticFractYear(year, month, day, tzo) ==
  (DaysBetween(LocalMidnight(year, 0, 1, tzo),
               LocalMidnight(year, month, day + 1, tzo)) * TwoPi)
    \div YearLength(year, tzo)

\* computeHourAngle(threshold) with the values it closes over
computeHourAngle(threshold, altitude, cos, tan) ==
  IF cos = 0 \/ IsNaN(cos) \/ IsNaN(tan) THEN NaN
  ELSE Times57_2957795(Acos(FDiv(threshold - altitude, cos) - tan))
\* computeTime(hourAngle) with the values it closes over
computeTime(hourAngle, longitude, eqtime) ==
  IF IsNaN(hourAngle) \/ IsNaN(longitude) THEN NaN
  ELSE 720 * FP - 4 * (longitude + hourAngle) - eqtime
\* -hourAngle
Negated(hourAngle) == IF IsNaN(hourAngle) THEN NaN ELSE -hourAngle

\* the ten computeTime calls, in FP minutes from the start of the day
EventTimes(hour_angle_h, hour_angle_c, hour_angle_n, hour_angle_a, longitude, eqtime) ==
  [sunrise |-> computeTime(hour_angle_h, longitude, eqtime),
   sunset |-> computeTime(Negated(hour_angle_h), longitude, eqtime),
   solar_noon |-> computeTime(0, longitude, eqtime),
   solar_midnight |-> computeTime(-180 * FP, longitude, eqtime),
   civil_dawn |-> computeTime(hour_angle_c, longitude, eqtime),
   civil_dusk |-> computeTime(Negated(hour_angle_c), longitude, eqtime),
   nautical_dawn |-> computeTime(hour_angle_n, longitude, eqtime),
   nautical_dusk |-> computeTime(Negated(hour_angle_n), longitude, eqtime),
   astronomical_dawn |-> computeTime(hour_angle_a, longitude, eqtime),
   astronomical_dusk |-> computeTime(Negated(hour_angle_a), longitude, eqtime)]

\* the four hour angles (sun 0.0145, 0.1045, 0.2079, 0.3090 rad below the
\* horizon) and the event times they give
HourAngles(altitude, cos, tan, longitude, eqtime) ==
  EventTimes(computeHourAngle(-145, altitude, cos, tan),
             computeHourAngle(-1045, altitude, cos, tan),
             computeHourAngle(-2079, altitude, cos, tan),
             computeHourAngle(-3090, altitude, cos, tan),
             longitude, eqtime)

\* cos, tan, altitude and longitude of _updateStatic_
SolarEvents(this, eqtime, declination) ==
  HourAngles(FPTimes0_01745329(Scale(this.altitude, 2076, 1000)),
             FMul(Cos(declination), this.latitude_trig.y),
             FMul(FDiv(Sin(declination), Cos(declination)),
                  this.latitude_trig.z),
             LongitudeDeg(this.longitude), eqtime)

\* eqtime and declination of the year fraction g
EventMinutesOf(this, g) == SolarEvents(this, EqTime(g), Declination(g))

\* The minutes from the start of the day of the ten events, as
\* _updateStatic_ computes them from this._date_, this._latitude_trig_,
\* this._altitude_ and this._longitude_
EventMinutes(this, tzo) ==
  EventMinutesOf(this,
                 StaticFractYear(getFullYear(this.date, tzo),
                                 getMonth(this.date, tzo),
                                 getDate(this.date, tzo), tzo))

\* _updateStatic_(): the ten event Dates of the local day of this._date_
updateStatic(this, tzo) ==
  LET m == EventMinutes(this, tzo)
      time_template == LocalMidnight(getFullYear(this.date, tzo),
                                     getMonth(this.date, tzo),
                                     getDate(this.date, tzo), tzo)
  IN  [e \in EventNames |-> EventDate(time_template, m[e], tzo)] @@ this

\* Math.sqrt of a non-negative integer, rounded down
RECURSIVE SqrtSearch(_, _, _)
SqrtSearch(lo, hi, n) ==
  IF hi - lo <= 1 THEN lo
  ELSE LET mid == (lo + hi) \div 2
       IN  IF mid * mid <= n THEN SqrtSearch(mid, hi, n)
           ELSE SqrtSearch(lo, mid, n)
\* Math.atan2(y, x) of FP values, in FP rad
Atan2(y, x) ==
  LET r == SqrtSearch(0, 46341, x * x + y * y)
  IN  IF r = 0 THEN 0 ELSE Sgn(y) * Acos(Min(FP, FDiv(Abs(x), r)) * Sgn(x))

\* Math.tan of an FP value; Infinity where the cosine vanishes
Tan(v) == IF Cos(v) = 0 THEN Infinity ELSE FDiv(Sin(v), Cos(v))

\* fract_year_rad of _updateDynamic_, taken to the minute, which is below
\* the FP resolution
DynamicFractYear(date, year, tzo) ==
  LET local == LocalView(date, tzo)
  IN  ((local.day - LocalView(LocalMidnight(year, 0, 1, tzo), tzo).day) * TwoPi
         + ((local.ms \div MsPerMinute) * TwoPi) \div 1440)
        \div YearLength(year, tzo)

\* Vec3(Math.sin(declination), Math.cos(declination), sin / cos)
DeclinationTrig(declination) ==
  [x |-> Sin(declination), y |-> Cos(declination),
   z |-> FDiv(Sin(declination), Cos(declination))]

\* solar_time in FP minutes
SolarTime(date, time_offset, tzo) ==
  IF IsNaN(time_offset) THEN NaN
  ELSE (getHours(date, tzo) * 60 + getMinutes(date, tzo)) * FP
         + (getSeconds(date, tzo) * 1666667) \div 10000 + time_offset

\* hour_angle = (solar_time * 0.25 - 180) * 0.01745329
HourAngle(solar_time) ==
  IF IsNaN(solar_time) THEN NaN
  ELSE FPTimes0_01745329(Sgn(solar_time) * (Abs(solar_time) \div 4)
                         - 180 * FP)

\* refraction = -0.0167 / Math.tan(...)
Refraction(tanArg) ==
  IF tanArg = Infinity THEN 0
  ELSE IF tanArg = 0 THEN -Infinity
  ELSE FDiv(-167, tanArg)

\* the two results stored by _updateDynamic_
SunPosition(this, elevation, refraction, azimuth) ==
  [this EXCEPT
     !.sun_elevation =
       IF IsNaN(elevation) THEN NaN
       ELSE IF refraction = -Infinity THEN -Infinity
       ELSE 90 * FP - elevation + refraction
            + Scale(this.altitude, 2076, 1000),
     !.sun_azimuth = Times57_2957795(azimuth)]

Refracted(this, elevation, azimuth) ==
  SunPosition(this, elevation,
              Refraction(Tan(elevation + FDiv(103000, elevation + 51100))),
              azimuth)

\* elevation and azimuth from the two Vec3 and the hour angle
DynamicOf(this, declination_trig, hour_angle, cos) ==
  IF IsNaN(this.latitude_trig.x) \/ IsNaN(hour_angle)
  THEN Refracted(this, NaN, NaN)
  ELSE Refracted(this,
         Times57_2957795(
           Acos(FMul(this.latitude_trig.x, declination_trig.x)
                + FMul(FMul(this.latitude_trig.y, declination_trig.y), cos))),
         Pi + Atan2(Sin(hour_angle),
                    FMul(cos, this.latitude_trig.x)
                    - FMul(declination_trig.z, this.latitude_trig.y)))

DynamicAt(this, declination, hour_angle) ==
  DynamicOf(this, DeclinationTrig(declination), hour_angle, Cos(hour_angle))

\* time_offset = eqtime + 4 * longitude - timezone, longitude in FP degrees
TimeOffset(eqtime, longitude, timezone) ==
  IF IsNaN(longitude) THEN NaN ELSE eqtime + 4 * longitude - timezone * FP

\* eqtime, declination, time_offset of the year fraction g
DynamicFor(this, g, tzo) ==
  DynamicAt(this, Declination(g),
            HourAngle(SolarTime(this.date,
                                TimeOffset(EqTime(g),
                                           LongitudeDeg(this.longitude),
                                           this.timezone),
                                tzo)))

\* _updateDynamic_(): sun_elevation and sun_azimuth for this._date_
updateDynamic(this, tzo) ==
  DynamicFor(this,
             DynamicFractYear(this.date, getFullYear(this.date, tzo), tzo),
             tzo)

\* ------------------------------------------------------------------------
\* Methods.  Each takes the instance and the host's getTimezoneOffset().
\* ------------------------------------------------------------------------
\* !timezone, for a timezone that is undefined or an integer
Falsy(timezone) == timezone = undefined \/ timezone = 0
\* typeof timezone === 'number' && Number.isFinite(timezone)
IsFiniteNumber(timezone) == timezone # undefined /\ ~IsNaN(timezone)

\* constructor(coordinates, date, timezone); date is the Date passed or,
\* when none is passed, the host's clock
constructor(coordinates, date, timezone, tzo) ==
  LET lat == Times0_01745329(coordinates.x).m
      fields ==
        [latitude |-> lat,
         longitude |-> Times0_01745329(coordinates.y).m,
         altitude |-> IF hasOwnPropertyZ(coordinates) THEN coordinates.z ELSE 0,
         date |-> DateFromISO(toISOString(date)),
         timezone |-> IF Falsy(timezone) THEN -tzo ELSE timezone,
         sun_elevation |-> 0,
         sun_azimuth |-> 0,
         latitude_trig |-> LatitudeTrig(lat),
         last_date |-> <<1970, 1, 1, 0, 0, 0>>]
  IN  updateDynamic(updateStatic(fields, tzo), tzo)

\* The error the constructor raises, "" when it returns the instance: the
\* coordinates are only multiplied and stored, and date.toISOString() raises
\* a RangeError for an Invalid Date.
constructorThrew(coordinates, date, timezone) ==
  IF ~IsValidDate(date) THEN "RangeError" ELSE ""

\* Math.abs(a - b) > eps in JavaScript numbers: false when either is NaN
AbsDiffAbove(a, b, eps) == ~IsNaN(a) /\ ~IsNaN(b) /\ Abs(a - b) > eps

\* setLocation that stores the new location and leaves _latitude_trig_ as
\* it was
setLocationStaleTrig(this, coordinates, timezoneArg, tzo) ==
  LET timezone == IF Falsy(timezoneArg) THEN this.timezone ELSE timezoneArg
      c == [coordinates EXCEPT !.x = Times0_01745329(@),
                               !.y = Times0_01745329(@)]
      z == NumberZ(c)
      changed ==
        \/ AbsDiffAbove(c.x.m, this.latitude, 10)
        \/ AbsDiffAbove(c.y.m, this.longitude, 10)
        \/ AbsDiffAbove(z, this.altitude, 10)
        \/ this.timezone # timezone
      moved ==
        [this EXCEPT
           !.latitude = c.x.m,
           !.longitude = c.y.m,
           !.altitude = IF hasOwnPropertyZ(c) THEN c.z ELSE 0,
           !.timezone = timezone]
  IN  IF changed
      THEN [this |-> updateDynamic(updateStatic(moved, tzo), tzo),
            coordinates |-> c, threw |-> "", static |-> 1, dynamic |-> 1]
      ELSE [this |-> this, coordinates |-> c, threw |-> "",
            static |-> 0, dynamic |-> 0]
\* setLocation(coordinates, timezone): the instance afterwards, the caller's
\* coordinates object afterwards, what it threw, and how often each
\* calculator ran
setLocation(this, coordinates, timezoneArg, tzo) ==
  LET timezone == IF Falsy(timezoneArg) THEN this.timezone ELSE timezoneArg
      c == [coordinates EXCEPT !.x = Times0_01745329(@),
                               !.y = Times0_01745329(@)]
      z == NumberZ(c)
      changed ==
        \/ AbsDiffAbove(c.x.m, this.latitude, 10)
        \/ AbsDiffAbove(c.y.m, this.longitude, 10)
        \/ AbsDiffAbove(z, this.altitude, 10)
        \/ this.timezone # timezone
      moved ==
        [this EXCEPT
           !.latitude = c.x.m,
           !.longitude = c.y.m,
           !.altitude = IF hasOwnPropertyZ(c) THEN c.z ELSE 0,
           !.timezone = timezone,
           !.latitude_trig = LatitudeTrig(c.x.m)]
  IN  IF changed
      THEN [this |-> updateDynamic(updateStatic(moved, tzo), tzo),
            coordinates |-> c, threw |-> "", static |-> 1, dynamic |-> 1]
      ELSE [this |-> this, coordinates |-> c, threw |-> "",
            static |-> 0, dynamic |-> 0]

\* setDateTime(date).  date.toISOString() raises a RangeError for an
\* Invalid Date.  newDate and currentDate are assigned without a
\* declaration, and a class body is strict code: each assignment, once its
\* right-hand side is evaluated, throws a ReferenceError unless the global
\* object already has that property.
setDateTime(this, date, tzo, globals) ==
  LET newDate == toISOString(date)
      currentDate == toISOString(this.date)
      dated == updateDynamic([this EXCEPT !.date = DateFromISO(newDate)], tzo)
      marked == [dated EXCEPT
                   !.last_date = toISOString(DateFromISO(currentDate))]
  IN  IF ~IsValidDate(date)
      THEN [this |-> this, threw |-> "RangeError",
            static |-> 0, dynamic |-> 0]
      ELSE IF ~({"newDate", "currentDate"} \subseteq globals)
      THEN [this |-> this, threw |-> "ReferenceError",
            static |-> 0, dynamic |-> 0]
      ELSE IF substring(currentDate, 19) # substring(newDate, 19)
      THEN IF substring(currentDate, 10) # substring(this.last_date, 10)
           THEN [this |-> updateStatic(marked, tzo), threw |-> "",
                 static |-> 1, dynamic |-> 1]
           ELSE [this |-> dated, threw |-> "", static |-> 0, dynamic |-> 1]
      ELSE [this |-> this, threw |-> "", static |-> 0, dynamic |-> 0]

\* the copy aliased to the stored Date, so that the shift lands on both
ShiftedCopyAliased(stored, timezone, tzo) ==
  LET shifted == IF IsValidDate(stored)
                 THEN setMinutes(stored, getMinutes(stored, tzo) + timezone, tzo)
                 ELSE InvalidDate
  IN  [stored |-> shifted, ret |-> shifted]
\* new Date(stored); date.setMinutes(stored.getMinutes() + timezone): the
\* stored Date as it is left, and the Date returned
ShiftedCopy(stored, timezone, tzo) ==
  [stored |-> stored,
   ret |-> IF IsValidDate(stored)
           THEN setMinutes(stored, getMinutes(stored, tzo) + timezone, tzo)
           ELSE InvalidDate]

\* the timezone an accessor shifts by
AccessorTimezone(this, timezone) ==
  IF IsFiniteNumber(timezone) THEN timezone ELSE this.timezone

\* getCoordinates()
getCoordinates(this) ==
  [this |-> this,
   ret |-> [x |-> IF IsNaN(this.latitude) THEN NaN
                  ELSE ScaleM(this.latitude, 572958, 1),
            y |-> IF IsNaN(this.longitude) THEN NaN
                  ELSE ScaleM(this.longitude, 572958, 1),
            z |-> this.altitude]]
\* getTimezone()
getTimezone(this) == [this |-> this, ret |-> this.timezone]
\* getDateTime(timezone)
getDateTime(this, timezone, tzo) ==
  LET r == ShiftedCopy(this.date, AccessorTimezone(this, timezone), tzo)
  IN  [this |-> [this EXCEPT !.date = r.stored], ret |-> r.ret]
\* getSunPosition()
getSunPosition(this) ==
  [this |-> this, ret |-> [x |-> this.sun_azimuth, y |-> this.sun_elevation]]
\* getSunrise(timezone), getSunset(timezone), ... getAstronomicalDusk(timezone)
getEvent(this, e, timezone, tzo) ==
  LET r == ShiftedCopy(this[e], AccessorTimezone(this, timezone), tzo)
  IN  [this |-> [this EXCEPT ![e] = r.stored], ret |-> r.ret]

\* ------------------------------------------------------------------------
\* The caller: one SunCalc instance, created once and then driven by
\* setLocation, setDateTime and the accessors in any order, as the update
\* function of the example does on every frame.  The caller builds the
\* coordinates object for each call.
\* ------------------------------------------------------------------------
NumDays == 2             \* consecutive days the instants are drawn from
FirstDay == DaysFromCivil(2024, 6, 20)
Noon == 12 * 60 * MsPerMinute
TimesOfDay == {Noon, Noon + 500, Noon + 1000}
\* the instants a caller passes: three on the first day, two of them within
\* one second, and noon of each following day.  Every one lies on the same
\* calendar day in UTC and on the host.
Instants ==
  {[day |-> FirstDay, ms |-> t] : t \in TimesOfDay}
    \cup {[day |-> FirstDay + i, ms |-> Noon] : i \in 1..(NumDays - 1)}

Deg(m) == [m |-> m, e |-> 7]
Vec2(x, y) == [x |-> Deg(x), y |-> Deg(y)]
Vec3(x, y, z) == [x |-> Deg(x), y |-> Deg(y), z |-> z]
\* coordinates a caller passes: degrees in 1e-7, altitude in mm
Locations ==
  {Vec3(450000000, 100000000, 100000),
   Vec2(450000000, 100000000),
   Vec3(450000005, 100000005, 100005),
   Vec3(450000000, 100000006, 100020),
   Vec3(650000000, 100000000, 100000)}
\* coordinates with a latitude or longitude that is missing or not a
\* number: the component converts to NaN
MalformedLocations ==
  {[x |-> Deg(NaN), y |-> Deg(100000000), z |-> 100000],
   [x |-> Deg(450000000), y |-> Deg(NaN), z |-> 100000]}
\* a Date object that holds no time value
MalformedInstants == {InvalidDate}
\* timezone arguments of the constructor and of setLocation
Timezones == {undefined, 0, 60}
\* timezone arguments of the accessors
AccessorTimezones == {undefined, 90}
\* getTimezoneOffset() of the host: UTC+2
HostOffsets == {-120}

VARIABLES
  sun,       \* the SunCalc instance
  tzo,       \* the host's getTimezoneOffset()
  globals,   \* the identifiers that are properties of the global object
  call       \* the last call: the method and what it threw

vars == <<sun, tzo, globals, call>>

Call(op, threw) == [op |-> op, threw |-> threw]

Init ==
  \E coordinates \in Locations, date \in Instants, timezone \in Timezones :
    /\ tzo \in HostOffsets
    /\ globals \in {{}, {"newDate", "currentDate"}}
    /\ sun = constructor(coordinates, date, timezone, tzo)
    /\ call = Call("constructor", "")

\* sun.setLocation(coordinates, timezone)
SetLocation ==
  \E coordinates \in Locations, timezone \in Timezones :
    /\ sun' = setLocation(sun, coordinates, timezone, tzo).this
    /\ call' = Call("setLocation", "")
    /\ UNCHANGED <<tzo, globals>>

\* sun.setDateTime(date)
SetDateTime ==
  \E date \in Instants :
    LET r == setDateTime(sun, date, tzo, globals)
    IN  /\ sun' = r.this
        /\ call' = Call("setDateTime", r.threw)
        /\ UNCHANGED <<tzo, globals>>

\* an accessor was called and returned r.ret
Returned(op, r) ==
  /\ sun' = r.this
  /\ call' = Call(op, "")
  /\ UNCHANGED <<tzo, globals>>

GetCoordinates == Returned("getCoordinates", getCoordinates(sun))
GetTimezone == Returned("getTimezone", getTimezone(sun))
GetSunPosition == Returned("getSunPosition", getSunPosition(sun))
GetDateTime ==
  \E timezone \in AccessorTimezones :
    Returned("getDateTime", getDateTime(sun, timezone, tzo))
GetEvent ==
  \E e \in EventNames, timezone \in AccessorTimezones :
    Returned("getEvent", getEvent(sun, e, timezone, tzo))

Next ==
  \/ SetLocation
  \/ SetDateTime
  \/ GetCoordinates
  \/ GetTimezone
  \/ GetSunPosition
  \/ GetDateTime
  \/ GetEvent

Spec == Init /\ [][Next]_vars

\* ------------------------------------------------------------------------
\* Properties
\* ------------------------------------------------------------------------
\* "YYYY-MM-DD" and "YYYY-MM-DDTHH:mm:ss" of a Date
DayOf(d) == substring(toISOString(d), 10)
SecondOf(d) == substring(toISOString(d), 19)
\* the ten event Dates of an instance
Events(this) == [e \in EventNames |-> this[e]]
\* what a setLocation argument asks for
WantedAltitude(coordinates) ==
  IF hasOwnPropertyZ(coordinates) THEN coordinates.z ELSE 0
WantedTimezone(this, timezone) ==
  IF timezone = undefined THEN this.timezone ELSE timezone

\* C1: in every reachable state the ten cached event Dates are the ones
\* _updateStatic_ produces for the stored date and the stored location.
C1_DailyCacheCurrent == Events(sun) = Events(updateStatic(sun, tzo))

\* C2: in every reachable state the cached azimuth and elevation are the
\* ones _updateDynamic_ produces for the stored location, timezone and date,
\* and after setDateTime(date) the stored date agrees with date to the second.
C2_InstantCacheCurrent ==
  /\ getSunPosition(sun).ret = getSunPosition(updateDynamic(sun, tzo)).ret
  /\ \A date \in Instants :
       SecondOf(setDateTime(sun, date, tzo, globals).this.date) = SecondOf(date)

\* C3: a setDateTime call that returns normally never runs _updateStatic_
\* when its instant lies on the calendar day of the stored date, and runs it
\* once, in that very call, when its instant lies on a later calendar day.
C3_DayGranularity ==
  \A date \in Instants :
    LET r == setDateTime(sun, date, tzo, globals)
    IN  r.threw = "" =>
          /\ DayOf(date) = DayOf(sun.date) => r.static = 0
          /\ date.day > sun.date.day => r.static = 1

\* C4: setDateTime with an instant in the stored second changes nothing and
\* runs no calculator; with any other instant it makes that instant the
\* stored date and runs _updateDynamic_ exactly once.
C4_SecondGranularity ==
  \A date \in Instants :
    LET r == setDateTime(sun, date, tzo, globals)
    IN  IF SecondOf(date) = SecondOf(sun.date)
        THEN r.this = sun /\ r.static = 0 /\ r.dynamic = 0
        ELSE r.this.date = date /\ r.dynamic = 1

\* C5: a second setLocation with the arguments of the first, passed as a
\* freshly built coordinates object or as the same object again, runs no
\* calculator and leaves the instance as the first call left it.
C5_SetLocationIdempotent ==
  \A coordinates \in Locations, timezone \in Timezones :
    LET first == setLocation(sun, coordinates, timezone, tzo)
        fresh == setLocation(first.this, coordinates, timezone, tzo)
        again == setLocation(first.this, first.coordinates, timezone, tzo)
    IN  /\ fresh.static = 0 /\ fresh.dynamic = 0 /\ fresh.this = first.this
        /\ again.static = 0 /\ again.dynamic = 0 /\ again.this = first.this

\* C6: setLocation stores the new latitude, longitude, altitude (0 when the
\* coordinates have none) and timezone and runs both calculators if and only
\* if the latitude or the longitude moved by more than 1e-8 rad, the
\* altitude by more than 1e-2 m, or the timezone differs; otherwise it
\* changes nothing.
C6_ThresholdRule ==
  \A coordinates \in Locations, timezone \in Timezones :
    LET r == setLocation(sun, coordinates, timezone, tzo)
        lat == Times0_01745329(coordinates.x).m
        lon == Times0_01745329(coordinates.y).m
        alt == WantedAltitude(coordinates)
        tz == WantedTimezone(sun, timezone)
    IN  IF \/ Abs(lat - sun.latitude) > 10
           \/ Abs(lon - sun.longitude) > 10
           \/ Abs(alt - sun.altitude) > 10
           \/ tz # sun.timezone
        THEN /\ r.static = 1 /\ r.dynamic = 1
             /\ r.this.latitude = lat /\ r.this.longitude = lon
             /\ r.this.altitude = alt /\ r.this.timezone = tz
        ELSE r.static = 0 /\ r.dynamic = 0 /\ r.this = sun

\* C7: after setLocation(coordinates, tz) or construction with an integer tz,
\* 0 included, getTimezone() returns tz.
C7_TimezoneHonoured ==
  \A coordinates \in Locations, tz \in Timezones \ {undefined} :
    /\ getTimezone(setLocation(sun, coordinates, tz, tzo).this).ret = tz
    /\ getTimezone(constructor(coordinates, sun.date, tz, tzo)).ret = tz

\* C8: each of the ten event accessors returns a valid Date, never the
\* Invalid Date, whatever the location and the day.
C8_EventsDefined ==
  \A e \in EventNames, timezone \in AccessorTimezones :
    IsValidDate(getEvent(sun, e, timezone, tzo).ret)

\* C9: every accessor, with or without a timezone argument, leaves the
\* instance as it was; getDateTime and the event accessors return the stored
\* Date moved by the timezone argument (the stored timezone when none is
\* passed), in minutes.
C9_AccessorsPure ==
  /\ getCoordinates(sun).this = sun
  /\ getTimezone(sun).this = sun
  /\ getSunPosition(sun).this = sun
  /\ \A timezone \in AccessorTimezones :
       LET shift == AccessorTimezone(sun, timezone) * MsPerMinute
       IN  /\ getDateTime(sun, timezone, tzo).this = sun
           /\ getDateTime(sun, timezone, tzo).ret = AddMs(sun.date, shift)
           /\ \A e \in EventNames :
                /\ getEvent(sun, e, timezone, tzo).this = sun
                /\ getEvent(sun, e, timezone, tzo).ret = AddMs(sun[e], shift)
\* an event accessor has just returned and a stored event Date is valid, so
\* that the returned copy differs from it
C9_Witness ==
  /\ call.op = "getEvent"
  /\ \E e \in EventNames :
       /\ IsValidDate(sun[e])
       /\ getEvent(sun, e, 90, tzo).ret # sun[e]

\* C10: a setDateTime call on a constructed instance raises no error.
C10_SetDateTimeCompletes == call.op = "setDateTime" => call.threw = ""

\* C11: the constructor and setLocation called with malformed coordinates,
\* and setDateTime called with a malformed Date, raise an error and leave
\* the instance as it was.
C11_MalformedInputFailsFast ==
  /\ \A coordinates \in MalformedLocations, timezone \in Timezones :
       /\ constructorThrew(coordinates, sun.date, timezone) # ""
       /\ setLocation(sun, coordinates, timezone, tzo).threw # ""
       /\ setLocation(sun, coordinates, timezone, tzo).this = sun
  /\ \A date \in MalformedInstants :
       /\ setDateTime(sun, date, tzo, globals).threw # ""
       /\ setDateTime(sun, date, tzo, globals).this = sun

\* C12: in every reachable state _latitude_trig_ is the sine, cosine and
\* tangent of the stored latitude, and it changes only in a setLocation call
\* that changes the stored latitude: never in setDateTime, in a setLocation
\* that changes nothing, or in an accessor.
C12_LatitudeTrigCurrent ==
  /\ [](sun.latitude_trig = LatitudeTrig(sun.latitude))
  /\ [][sun'.latitude_trig # sun.latitude_trig =>
          (call'.op = "setLocation" /\ sun'.latitude # sun.latitude)]_vars
\* setLocation has just returned, and a further setLocation from here
\* stores another latitude and rewrites _latitude_trig_ with it
C12_Witness ==
  /\ call.op = "setLocation"
  /\ \E coordinates \in Locations :
       LET r == setLocation(sun, coordinates, undefined, tzo)
       IN  /\ r.this.latitude # sun.latitude
           /\ r.this.latitude_trig # sun.latitude_trig
           /\ r.this.latitude_trig = LatitudeTrig(r.this.latitude)

====
